---- MODULE Spec2Model ----
(***************************************************************************)
(* Model of src/lib.rs of pointer-types: the PointerButton enumeration,    *)
(* its conversion from a raw isize code, and the PointerButtons bit-set    *)
(* over a u8.                                                              *)
(***************************************************************************)
EXTENDS Integers, Sequences, FiniteSets

\* ------------------------------------------------------------------------
\* Bounds
\* ------------------------------------------------------------------------

\* raw isize codes handed to PointerButton::from range over -MaxRaw..MaxRaw
MaxRaw == 7

RawCodes == (0 - MaxRaw)..MaxRaw

\* raw isize codes of the conversion chain range over -MaxCode..MaxCode
MaxCode == 20

ChainCodes == (0 - MaxCode)..MaxCode

\* ------------------------------------------------------------------------
\* u8 arithmetic
\* ------------------------------------------------------------------------

\* PointerButtons wraps a u8
U8Bits == 8

U8Mod == 2 ^ U8Bits

U8 == 0..(U8Mod - 1)

RECURSIVE BitAnd(_, _)
\* x & y on u8
BitAnd(x, y) ==
    IF x = 0 \/ y = 0 THEN 0
    ELSE ((x % 2) * (y % 2)) + 2 * BitAnd(x \div 2, y \div 2)

RECURSIVE BitOr(_, _)
\* x | y on u8
BitOr(x, y) ==
    IF x = 0 THEN y
    ELSE IF y = 0 THEN x
    ELSE (IF (x % 2) + (y % 2) > 0 THEN 1 ELSE 0) + 2 * BitOr(x \div 2, y \div 2)

\* !x on u8
BitNot(x) == (U8Mod - 1) - x

\* x << n on u8 (n < 8, so the shift itself never overflows the shift width)
Shl(x, n) == (x * (2 ^ n)) % U8Mod

\* Ord::min on u8
Min(x, y) == IF x <= y THEN x ELSE y

\* ------------------------------------------------------------------------
\* PointerButton
\* ------------------------------------------------------------------------

PointerButton == {"None", "Primary", "Secondary", "Auxiliary", "X1", "X2"}

\* a plausible slip: the DOM `button` numbering (1 = auxiliary, 2 = secondary)
Discriminant_DomOrder(button) ==
    CASE button = "None"      -> 0
      [] button = "Primary"   -> 1
      [] button = "Secondary" -> 3
      [] button = "Auxiliary" -> 2
      [] button = "X1"        -> 4
      [] button = "X2"        -> 5

\* `button as u8`: the explicit discriminants of the enum
Discriminant(button) ==
    CASE button = "None"      -> 0
      [] button = "Primary"   -> 1
      [] button = "Secondary" -> 2
      [] button = "Auxiliary" -> 3
      [] button = "X1"        -> 4
      [] button = "X2"        -> 5

\* a plausible slip: saturating instead of falling back to None
FromIsize_Saturate(value) ==
    CASE value = 0 -> "None"
      [] value = 1 -> "Primary"
      [] value = 2 -> "Secondary"
      [] value = 3 -> "Auxiliary"
      [] value = 4 -> "X1"
      [] value = 5 -> "X2"
      [] value > 5 -> "X2"
      [] OTHER     -> "None"

\* impl From<isize> for PointerButton
FromIsize(value) ==
    CASE value = 0 -> "None"
      [] value = 1 -> "Primary"
      [] value = 2 -> "Secondary"
      [] value = 3 -> "Auxiliary"
      [] value = 4 -> "X1"
      [] value = 5 -> "X2"
      [] OTHER     -> "None"

\* ------------------------------------------------------------------------
\* PointerButtons: the methods as functions of the wrapped u8
\* ------------------------------------------------------------------------

\* PointerButtons::empty
empty == 0

\* impl From<u8> for PointerButtons
FromU8(value) == value

\* a plausible slip: the shifted 1 not clamped by min
Mask_NoClamp(button) == Shl(1, Discriminant(button))

\* the expression `1.min(button as u8) << button as u8`
Mask(button) == Shl(Min(1, Discriminant(button)), Discriminant(button))

insert(s, button) == BitOr(s, Mask(button))

\* a plausible slip: toggling the bit instead of clearing it
remove_Toggle(s, button) ==
    BitAnd(BitOr(s, Mask(button)), BitNot(BitAnd(s, Mask(button))))

remove(s, button) == BitAnd(s, BitNot(Mask(button)))

with(s, button) == BitOr(s, Mask(button))

\* a plausible slip: the mask not negated
without_NoNegate(s, button) == BitAnd(s, Mask(button))

without(s, button) == BitAnd(s, BitNot(Mask(button)))

\* a plausible slip: testing the unclamped bit
contains_NoClamp(s, button) == BitAnd(s, Shl(1, Discriminant(button))) # 0

contains(s, button) == BitAnd(s, Mask(button)) # 0

is_empty(s) == s = 0

\* a plausible slip: the comparison against the wrong operand
is_superset_Swapped(s, buttons) == BitAnd(s, buttons) = s

is_superset(s, buttons) == BitAnd(s, buttons) = buttons

has_primary(s) == contains(s, "Primary")

has_secondary(s) == contains(s, "Secondary")

has_auxilary(s) == contains(s, "Auxiliary")

has_x1(s) == contains(s, "X1")

has_x2(s) == contains(s, "X2")

extend(s, buttons) == BitOr(s, buttons)

\* a plausible slip: assignment instead of or-assignment
union_Assign(s, buttons) == buttons

union(s, buttons) == BitOr(s, buttons)

clear(s) == 0

\* ------------------------------------------------------------------------
\* State
\* ------------------------------------------------------------------------

VARIABLES
    self,     \* the u8 of the PointerButtons value being operated on
    other,    \* the u8 of a second PointerButtons value
    call,     \* the last call: its name, its arguments and what it returned
    out,      \* the values returned so far by the by-value method `union`
    last,     \* history: for each real button, the last call that affected it
    origin    \* history: how `other` was obtained

vars == <<self, other, call, out, last, origin>>

RealButtons == PointerButton \ {"None"}

NoHistory == [b \in RealButtons |-> "none"]

\* ------------------------------------------------------------------------
\* Spec: every public operation of PointerButtons applied to one value.
\* Button arguments come from raw codes through PointerButton::from;
\* PointerButtons arguments come from From<u8>.
\* ------------------------------------------------------------------------

Init ==
    /\ self = empty
    /\ other = empty
    /\ call = [op |-> "empty"]
    /\ out = <<>>
    /\ last = NoHistory
    /\ origin = "building"

Empty ==
    /\ self' = empty
    /\ call' = [op |-> "empty"]
    /\ UNCHANGED <<other, out, last, origin>>

ConvU8(value) ==
    /\ self' = FromU8(value)
    /\ call' = [op |-> "from_u8"]
    /\ UNCHANGED <<other, out, last, origin>>

Insert(value) ==
    LET button == FromIsize(value) IN
    /\ self' = insert(self, button)
    /\ call' = [op |-> "insert", raw |-> value, button |-> button]
    /\ UNCHANGED <<other, out, last, origin>>

Remove(value) ==
    LET button == FromIsize(value) IN
    /\ self' = remove(self, button)
    /\ call' = [op |-> "remove", raw |-> value, button |-> button]
    /\ UNCHANGED <<other, out, last, origin>>

With(value) ==
    LET button == FromIsize(value) IN
    /\ self' = with(self, button)
    /\ call' = [op |-> "with", raw |-> value, button |-> button]
    /\ UNCHANGED <<other, out, last, origin>>

Without(value) ==
    LET button == FromIsize(value) IN
    /\ self' = without(self, button)
    /\ call' = [op |-> "without", raw |-> value, button |-> button]
    /\ UNCHANGED <<other, out, last, origin>>

Contains(value) ==
    LET button == FromIsize(value) IN
    /\ call' = [op |-> "contains", raw |-> value, button |-> button,
                ret |-> contains(self, button)]
    /\ UNCHANGED <<self, other, out, last, origin>>

IsEmpty ==
    /\ call' = [op |-> "is_empty", ret |-> is_empty(self)]
    /\ UNCHANGED <<self, other, out, last, origin>>

Extend(value) ==
    /\ self' = extend(self, FromU8(value))
    /\ call' = [op |-> "extend"]
    /\ UNCHANGED <<other, out, last, origin>>

Union(value) ==
    /\ self' = union(self, FromU8(value))
    /\ call' = [op |-> "union"]
    /\ UNCHANGED <<other, out, last, origin>>

Clear ==
    /\ self' = clear(self)
    /\ call' = [op |-> "clear"]
    /\ UNCHANGED <<other, out, last, origin>>

Next ==
    \/ Empty
    \/ \E value \in U8 : ConvU8(value)
    \/ \E value \in RawCodes : Insert(value)
    \/ \E value \in RawCodes : Remove(value)
    \/ \E value \in RawCodes : With(value)
    \/ \E value \in RawCodes : Without(value)
    \/ \E value \in RawCodes : Contains(value)
    \/ IsEmpty
    \/ \E value \in U8 : Extend(value)
    \/ \E value \in U8 : Union(value)
    \/ Clear

Spec == Init /\ [][Next]_vars

\* C1: bit 0 of the u8 is zero in every value the public operations produce.
C1_Bit0NeverSet == self % 2 = 0

NoneOps == {"insert", "remove", "with", "without"}

C4_Step ==
    /\ (call'.op \in NoneOps /\ call'.button = "None") => self' = self
    /\ (call'.op = "insert" /\ call'.raw \notin 0..5 /\ self = empty)
           => self' = empty

\* C4: insert, remove, with and without of PointerButton::None leave the set
\* as it was, and a button converted from an out-of-range raw code, inserted
\* into the empty set, leaves it empty.
C4_NoneIsNoOp == [][C4_Step]_vars

C4_Witness ==
    /\ call.op = "insert"
    /\ call.raw = 7
    /\ call.button = "None"
    /\ self = empty

\* C5: contains(PointerButton::None) is false for every value, From<u8>
\* values included.
C5_ContainsNoneFalse ==
    /\ ~contains(self, "None")
    /\ (call.op = "contains" /\ call.button = "None") => call.ret = FALSE

C5_Witness ==
    /\ call.op = "contains"
    /\ call.button = "None"
    /\ self % 2 = 1
    /\ call.ret = FALSE

\* C6: is_empty() is true exactly when contains(b) is false for each of the
\* five real buttons.
C6_IsEmptyIffNoButton ==
    call.op = "is_empty" =>
        (call.ret <=> \A b \in RealButtons : ~contains(self, b))

\* ------------------------------------------------------------------------
\* SpecChain: a raw code is converted with PointerButton::from, the button
\* is added to the empty set with the builder `with` and taken out again
\* with `without`.
\* ------------------------------------------------------------------------

ChainEmpty ==
    /\ call.op = "without"
    /\ self' = empty
    /\ call' = [op |-> "empty"]
    /\ UNCHANGED <<other, out, last, origin>>

ChainFromIsize(value) ==
    /\ call.op = "empty"
    /\ call' = [op |-> "from_isize", raw |-> value,
                button |-> FromIsize(value)]
    /\ UNCHANGED <<self, other, out, last, origin>>

ChainWith ==
    /\ call.op = "from_isize"
    /\ self' = with(self, call.button)
    /\ call' = [call EXCEPT !.op = "with"]
    /\ UNCHANGED <<other, out, last, origin>>

ChainWithout ==
    /\ call.op = "with"
    /\ self' = without(self, call.button)
    /\ call' = [call EXCEPT !.op = "without"]
    /\ UNCHANGED <<other, out, last, origin>>

NextChain ==
    \/ ChainEmpty
    \/ \E value \in ChainCodes : ChainFromIsize(value)
    \/ ChainWith
    \/ ChainWithout

SpecChain == Init /\ [][NextChain]_vars

\* C2: every raw code outside 0..5, negative ones included, converts to None.
C2_OutOfRangeIsNone ==
    (call.op = "from_isize" /\ call.raw \notin 0..5) => call.button = "None"

C2_Witness ==
    /\ call.op = "from_isize"
    /\ call.raw < 0
    /\ call.button = "None"

\* the mapping table of the interface: 0=None, 1=Primary, 2=Secondary,
\* 3=Auxiliary, 4=X1, 5=X2
ButtonTable == <<"None", "Primary", "Secondary", "Auxiliary", "X1", "X2">>

\* C3: a raw code i in 0..5 converts to the variant the table gives for i,
\* and the ordinal of that variant is i again.
C3_RoundTrip ==
    (call.op = "from_isize" /\ call.raw \in 0..5) =>
        /\ call.button = ButtonTable[call.raw + 1]
        /\ Discriminant(call.button) = call.raw

C3_Witness ==
    /\ call.op = "from_isize"
    /\ call.raw = 3
    /\ call.button = "Auxiliary"

\* C7: empty().with(b).without(b) equals empty() for every b, None included.
C7_WithWithoutIsEmpty == call.op = "without" => self = empty

C7_Witness ==
    /\ call.op = "without"
    /\ call.button = "X2"
    /\ self = empty

\* ------------------------------------------------------------------------
\* SpecSet: insert, remove and clear applied to empty(), with the history
\* of the last call that affected each real button.
\* ------------------------------------------------------------------------

SetInsert(button) ==
    /\ self' = insert(self, button)
    /\ call' = [op |-> "insert", button |-> button]
    /\ last' = IF button \in RealButtons
               THEN [last EXCEPT ![button] = "insert"]
               ELSE last
    /\ UNCHANGED <<other, out, origin>>

SetRemove(button) ==
    /\ self' = remove(self, button)
    /\ call' = [op |-> "remove", button |-> button]
    /\ last' = IF button \in RealButtons
               THEN [last EXCEPT ![button] = "remove"]
               ELSE last
    /\ UNCHANGED <<other, out, origin>>

SetClear ==
    /\ self' = clear(self)
    /\ call' = [op |-> "clear"]
    /\ last' = [b \in RealButtons |-> "clear"]
    /\ UNCHANGED <<other, out, origin>>

NextSet ==
    \/ \E button \in PointerButton : SetInsert(button)
    \/ \E button \in PointerButton : SetRemove(button)
    \/ SetClear

SpecSet == Init /\ [][NextSet]_vars

\* the has_* wrapper of a real button
Has(s, button) ==
    CASE button = "Primary"   -> has_primary(s)
      [] button = "Secondary" -> has_secondary(s)
      [] button = "Auxiliary" -> has_auxilary(s)
      [] button = "X1"        -> has_x1(s)
      [] button = "X2"        -> has_x2(s)

C10_State ==
    /\ \A b \in RealButtons :
        /\ contains(self, b) <=> (last[b] = "insert")
        /\ Has(self, b) <=> (last[b] = "insert")
    /\ call.op = "clear" => self = empty

C10_Step ==
    /\ (call.op = "insert" /\ call'.op = "insert"
            /\ call'.button = call.button) => self' = self
    /\ call'.op \in {"insert", "remove"} =>
           \A b \in RealButtons \ {call'.button} :
               contains(self', b) <=> contains(self, b)

\* C10: after any sequence of insert, remove and clear from empty(), a real
\* button is contained (and its has_* wrapper true) exactly when the last
\* call that affected it was an insert; a call on one button leaves the
\* membership of the others; a repeated insert leaves the value identical;
\* clear yields the empty value.
C10_BehavesAsSet == [](C10_State) /\ [][C10_Step]_vars

C10_Witness ==
    /\ call.op = "remove"
    /\ call.button = "Primary"
    /\ last["Primary"] = "remove"
    /\ last["Secondary"] = "insert"
    /\ last["X2"] = "clear"
    /\ ~has_primary(self)
    /\ has_secondary(self)

\* ------------------------------------------------------------------------
\* SpecSuperset: S (self) is built from empty() by inserting buttons; T
\* (other) starts as a copy of S and has buttons removed, or is replaced by
\* an arbitrary value; S.is_superset(T) is queried.
\* ------------------------------------------------------------------------

SupInsert(button) ==
    /\ origin = "building"
    /\ self' = insert(self, button)
    /\ call' = [op |-> "insert"]
    /\ UNCHANGED <<other, out, last, origin>>

SupCopy ==
    /\ origin = "building"
    /\ other' = self
    /\ origin' = "removed"
    /\ call' = [op |-> "copy"]
    /\ UNCHANGED <<self, out, last>>

SupRemove(button) ==
    /\ origin # "building"
    /\ other' = remove(other, button)
    /\ call' = [op |-> "remove"]
    /\ UNCHANGED <<self, out, last, origin>>

SupOtherInsert(button) ==
    /\ origin # "building"
    /\ other' = insert(other, button)
    /\ origin' = "arbitrary"
    /\ call' = [op |-> "insert"]
    /\ UNCHANGED <<self, out, last>>

SupOtherFromU8(value) ==
    /\ origin # "building"
    /\ other' = FromU8(value)
    /\ origin' = "arbitrary"
    /\ call' = [op |-> "from_u8"]
    /\ UNCHANGED <<self, out, last>>

SupIsSuperset ==
    /\ origin # "building"
    /\ call' = [op |-> "is_superset", ret |-> is_superset(self, other)]
    /\ UNCHANGED <<self, other, out, last, origin>>

NextSuperset ==
    \/ \E button \in PointerButton : SupInsert(button)
    \/ SupCopy
    \/ \E button \in PointerButton : SupRemove(button)
    \/ \E button \in PointerButton : SupOtherInsert(button)
    \/ \E value \in U8 : SupOtherFromU8(value)
    \/ SupIsSuperset

SpecSuperset == Init /\ [][NextSuperset]_vars

\* C8: for S built from empty() by inserts, S.is_superset(T) is true when T
\* was obtained from S by removing buttons, and false when T contains a real
\* button that S does not contain.
C8_Superset ==
    call.op = "is_superset" =>
        /\ origin = "removed" => call.ret = TRUE
        /\ (\E b \in RealButtons : contains(other, b) /\ ~contains(self, b))
               => call.ret = FALSE

C8_Witness ==
    /\ call.op = "is_superset"
    /\ origin = "removed"
    /\ contains(self, "Primary")
    /\ contains(self, "X1")
    /\ ~contains(other, "Primary")
    /\ contains(other, "X1")
    /\ call.ret = TRUE

\* ------------------------------------------------------------------------
\* SpecUnion: two values a (self) and b (other) obtained with From<u8>;
\* a.union(b), b.union(a) and a.union(a) are computed in turn.
\* ------------------------------------------------------------------------

InitUnion ==
    /\ self \in {FromU8(value) : value \in U8}
    /\ other \in {FromU8(value) : value \in U8}
    /\ call = [op |-> "from_u8"]
    /\ out = <<>>
    /\ last = NoHistory
    /\ origin = "arbitrary"

UnionSelfOther ==
    /\ Len(out) = 0
    /\ out' = Append(out, union(self, other))
    /\ call' = [op |-> "union"]
    /\ UNCHANGED <<self, other, last, origin>>

UnionOtherSelf ==
    /\ Len(out) = 1
    /\ out' = Append(out, union(other, self))
    /\ call' = [op |-> "union"]
    /\ UNCHANGED <<self, other, last, origin>>

UnionSelfSelf ==
    /\ Len(out) = 2
    /\ out' = Append(out, union(self, self))
    /\ call' = [op |-> "union"]
    /\ UNCHANGED <<self, other, last, origin>>

NextUnion ==
    \/ UnionSelfOther
    \/ UnionOtherSelf
    \/ UnionSelfSelf

SpecUnion == InitUnion /\ [][NextUnion]_vars

\* C9: a.union(b) equals b.union(a), and a.union(a) equals a.
C9_UnionCommutativeIdempotent ==
    /\ Len(out) >= 2 => out[1] = out[2]
    /\ Len(out) >= 3 => out[3] = self

C9_Witness ==
    /\ Len(out) = 3
    /\ self = 6
    /\ other = 40
    /\ out = <<46, 46, 6>>

====
